---------------------------- MODULE Spec2Model ----------------------------
(***************************************************************************)
(* A model of readability_tools.py: the syllable estimator (nsyl and its   *)
(* heuristic fallback syllables), the word filter of get_words_list, the   *)
(* sample window of smog, the complex-word rule of gfi and the three age   *)
(* converters.                                                             *)
(*                                                                         *)
(* A Python str is a sequence of one-character strings, so that indexing,  *)
(* slicing, lower(), split(), strip() and the regular expressions are      *)
(* computed and not assumed.  A call that returns v is the record          *)
(* [exc |-> "none", val |-> v]; a call that raises E is [exc |-> E, ...].  *)
(***************************************************************************)
EXTENDS Integers, Sequences, FiniteSets, TLC

VARIABLES
    d,          \* the pronunciation dictionary, cmudict.dict()  (line 10)
    modeRaises, \* statistics.mode of the running interpreter: TRUE when it
                \* raises StatisticsError on multimodal data (Python < 3.8),
                \* FALSE when it returns the first mode met (Python >= 3.8)
    fn,         \* the function of the call in progress, "idle" between calls
    arg,        \* its argument
    locals,     \* the locals of the call that the claims speak about
    ret         \* its outcome

vars == <<d, modeRaises, fn, arg, locals, ret>>

-----------------------------------------------------------------------------
(* Bounds of the model *)

\* longest word over NsylAlphabet given to nsyl
MaxWordLen == 5
\* longest word over SylAlphabet given to syllables
MaxSylLen == 4
\* longest token over TokAlphabet given to the word filter
MaxTokLen == 6
\* most pronunciation variants of one dictionary entry
MaxVariants == 3
\* most sentences of a text given to smog
MaxSentences == 24
\* most tagged tokens of a text given to gfi
MaxGfiWords == 2
\* depth at which the interpreter raises RecursionError
\* (sys.getrecursionlimit(), 1000 by default)
RecursionLimit == 3
\* the metric values given to the converters are -MaxValue .. MaxValue, in
\* halves
MaxValue == 110

-----------------------------------------------------------------------------
(* Python values *)

Ret(v) == [exc |-> "none", val |-> v]

Raise(e) == [exc |-> e, val |-> 0]

NoLocals == [none |-> 0]

Max(a, b) == IF a >= b THEN a ELSE b

Min(a, b) == IF a <= b THEN a ELSE b

RECURSIVE SumSeq(_)
SumSeq(s) == IF s = << >> THEN 0 ELSE Head(s) + SumSeq(Tail(s))

\* all sequences over S of length lo..hi
SeqsOf(S, lo, hi) == UNION {[1..n -> S] : n \in lo..hi}

-----------------------------------------------------------------------------
(* Characters and str methods *)

LowerLetters == <<"a", "b", "c", "d", "e", "f", "g", "h", "i", "j", "k", "l", "m", "n", "o", "p", "q", "r", "s", "t", "u", "v", "w", "x", "y", "z">>

UpperLetters == <<"A", "B", "C", "D", "E", "F", "G", "H", "I", "J", "K", "L", "M", "N", "O", "P", "Q", "R", "S", "T", "U", "V", "W", "X", "Y", "Z">>

Range(s) == {s[i] : i \in DOMAIN s}

\* [a-zA-Z]
Letters == Range(LowerLetters) \cup Range(UpperLetters)

\* \d and str.isdigit on one character
Digits == {"0", "1", "2", "3", "4", "5", "6", "7", "8", "9"}

\* [a-zA-Z0-9], and str.isalnum on one character
AlNum == Letters \cup Digits

\* \w, the characters between which \b and \B tell a boundary
WordChars == AlNum \cup {"_"}

\* [a-zA-z]: the range A-z also holds the characters between Z and a (of
\* the six, the backslash and the grave accent are left out of the model)
AtoLowerZ == Letters \cup {"[", "]", "^", "_"}

\* str.isalpha
IsAlpha(w) == Len(w) > 0 /\ \A i \in 1..Len(w) : w[i] \in Letters

\* str.isalnum
IsAlNum(w) == Len(w) > 0 /\ \A i \in 1..Len(w) : w[i] \in AlNum

LowerChar(c) == IF c \in Range(UpperLetters) THEN LowerLetters[CHOOSE i \in 1..26 : UpperLetters[i] = c] ELSE c

\* str.lower
Lower(w) == [i \in 1..Len(w) |-> LowerChar(w[i])]

\* c in w, for one character c
HasChar(c, w) == \E i \in 1..Len(w) : w[i] = c

\* sub in w, for a str sub
Contains(sub, w) == \E i \in 0..(Len(w) - Len(sub)) : \A j \in 1..Len(sub) : w[i + j] = sub[j]

\* str.endswith
EndsWith(w, suf) == Len(w) >= Len(suf) /\ \A j \in 1..Len(suf) : w[Len(w) - Len(suf) + j] = suf[j]

\* str.split(c): the pieces between the occurrences of c, empty ones kept
RECURSIVE Split(_, _)
Split(w, c) == IF ~HasChar(c, w) THEN <<w>> ELSE LET i == CHOOSE k \in 1..Len(w) : w[k] = c /\ \A j \in 1..(k - 1) : w[j] # c IN <<SubSeq(w, 1, i - 1)>> \o Split(SubSeq(w, i + 1, Len(w)), c)

\* str.strip(c): leading and trailing occurrences of c removed
Strip(w, c) == LET keep == {i \in 1..Len(w) : w[i] # c} IN IF keep = {} THEN << >> ELSE SubSeq(w, CHOOSE i \in keep : \A j \in keep : i <= j, CHOOSE i \in keep : \A j \in keep : i >= j)

-----------------------------------------------------------------------------
(* statistics.mode, statistics.mean and round *)

Count(x, s) == Cardinality({i \in DOMAIN s : s[i] = x})

\* the values of s that occur most often
Modes(s) == {s[i] : i \in {k \in DOMAIN s : \A j \in DOMAIN s : Count(s[k], s) >= Count(s[j], s)}}

\* the first value of s that occurs most often
FirstMode(s) == s[CHOOSE i \in DOMAIN s : s[i] \in Modes(s) /\ \A j \in 1..(i - 1) : s[j] \notin Modes(s)]

\* statistics.mode(s), s not empty, under the interpreter's behaviour
Mode(s, raises) == IF raises /\ Cardinality(Modes(s)) > 1 THEN Raise("StatisticsError") ELSE Ret(FirstMode(s))

\* round(num / den) for den > 0: to the nearest integer, a tie to the even one
RoundHalfEven(num, den) == LET q == num \div den  r == num % den IN IF 2 * r < den THEN q ELSE IF 2 * r > den THEN q + 1 ELSE IF q % 2 = 0 THEN q ELSE q + 1

\* int(round(mean(s), 0))
RoundedMean(s) == RoundHalfEven(SumSeq(s), Len(s))

-----------------------------------------------------------------------------
(* syllables: the heuristic fallback *)

Vowels == {"a", "e", "i", "o", "u", "y"}

\* the for loop of lines 108-110, from index i (0-based) with count so far
RECURSIVE VowelLoop(_, _, _)
VowelLoop(w, i, count) == IF i >= Len(w) THEN count ELSE VowelLoop(w, i + 1, IF w[i + 1] \in Vowels /\ w[i] \notin Vowels THEN count + 1 ELSE count)

\* SuffixAdjust with the four statements made one if/elif chain, so that
\* only the first suffix that matches adjusts the count
SuffixAdjustFirstOnly(w, count) == IF EndsWith(w, <<"e">>) THEN count - 1 ELSE IF EndsWith(w, <<"l", "e">>) THEN count + 1 ELSE IF EndsWith(w, <<"s", "m">>) THEN count + 1 ELSE IF EndsWith(w, <<"t", "h", "m">>) THEN count + 1 ELSE count

\* count after the four suffix statements of lines 111-118
SuffixAdjust(w, count) == LET c1 == IF EndsWith(w, <<"e">>) THEN count - 1 ELSE count  c2 == IF EndsWith(w, <<"l", "e">>) THEN c1 + 1 ELSE c1  c3 == IF EndsWith(w, <<"s", "m">>) THEN c2 + 1 ELSE c2 IN IF EndsWith(w, <<"t", "h", "m">>) THEN c3 + 1 ELSE c3

\* count after `if count == 0: count += 1`
ZeroFloor(count) == IF count = 0 THEN count + 1 ELSE count

Syllables(word) == LET w == Lower(word) IN IF Len(w) = 0 THEN Raise("IndexError") ELSE Ret(ZeroFloor(SuffixAdjust(w, VowelLoop(w, 1, IF w[1] \in Vowels THEN 1 ELSE 0))))

-----------------------------------------------------------------------------
(* nsyl *)

W_US == <<"U", "S">>

W_us == <<"u", "s">>

W_separate == <<"s", "e", "p", "a", "r", "a", "t", "e">>

W_facebook == <<"f", "a", "c", "e", "b", "o", "o", "k">>

W_thefacebook == <<"t", "h", "e", "f", "a", "c", "e", "b", "o", "o", "k">>

W_tumblr == <<"t", "u", "m", "b", "l", "r">>

\* len(syl_count) of lines 38-42: the phonemes whose last character is a digit
StressCount(phoneme_set) == Cardinality({j \in DOMAIN phoneme_set : phoneme_set[j][Len(phoneme_set[j])] \in Digits})

\* syl_list of lines 35-42
SylList(phoneme_list) == [i \in DOMAIN phoneme_list |-> StressCount(phoneme_list[i])]

\* lines 49-59: the general rule over the per-variant counts
VariantsCount(syl_list, raises) == IF Len(syl_list) > 1 THEN (LET m == Mode(syl_list, raises) IN IF m.exc = "StatisticsError" THEN Ret(RoundedMean(syl_list)) ELSE m) ELSE IF Len(syl_list) = 0 THEN Raise("IndexError") ELSE Ret(syl_list[1])

\* DictCount with the override of "separate" left out
DictCountNoSeparate(word, phoneme_list, raises) == IF word = W_US THEN Ret(2) ELSE IF word = W_us THEN Ret(1) ELSE VariantsCount(SylList(phoneme_list), raises)

\* lines 35-59: the word is a key of the dictionary
DictCount(word, phoneme_list, raises) == IF word = W_US THEN Ret(2) ELSE IF word = W_us THEN Ret(1) ELSE IF word = W_separate THEN Ret(2) ELSE VariantsCount(SylList(phoneme_list), raises)

\* lines 60-69: the except KeyError branch
FallbackCount(word) == IF Lower(word) = W_facebook THEN Ret(2) ELSE IF Lower(word) = W_thefacebook THEN Ret(3) ELSE IF Lower(word) = W_tumblr THEN Ret(2) ELSE Syllables(word)

\* lines 33-69: word.isalpha()
AlphaCount(word, dict, raises) == IF Lower(word) \in DOMAIN dict THEN DictCount(word, dict[Lower(word)], raises) ELSE FallbackCount(word)

\* re.search("[^-a-zA-Z]", word)
HasOtherChar(word) == \E i \in 1..Len(word) : word[i] \notin (Letters \cup {"-"})

\* re.search("[a-zA-Z]+\-[a-zA-Z]+", word)
HasLetterHyphenLetter(word) == \E i \in 2..(Len(word) - 1) : word[i] = "-" /\ word[i - 1] \in Letters /\ word[i + 1] \in Letters

\* re.search("[a-zA-Z]+\-\B", word): after the hyphen comes no word character
HasLetterHyphenNonWord(word) == \E i \in 2..Len(word) : word[i] = "-" /\ word[i - 1] \in Letters /\ (i = Len(word) \/ word[i + 1] \notin WordChars)

RECURSIVE Nsyl(_, _, _, _)
\* SumPieces with `syl_count = word_syllables` for the sum: the count of the
\* last piece
RECURSIVE SumPiecesLast(_, _, _, _, _)
SumPiecesLast(pieces, acc, dict, raises, depth) == IF pieces = << >> THEN Ret(acc) ELSE LET r == Nsyl(Head(pieces), dict, raises, depth) IN IF r.exc # "none" THEN r ELSE SumPiecesLast(Tail(pieces), r.val, dict, raises, depth)

RECURSIVE SumPieces(_, _, _, _, _)
\* lines 76-81: the loop over split_word, syl_count so far in acc; a piece
\* that raises ends the loop
SumPieces(pieces, acc, dict, raises, depth) == IF pieces = << >> THEN Ret(acc) ELSE LET r == Nsyl(Head(pieces), dict, raises, depth) IN IF r.exc # "none" THEN r ELSE SumPieces(Tail(pieces), acc + r.val, dict, raises, depth)

\* lines 70-87: '-' in word
HyphenCount(word, dict, raises, depth) == IF HasOtherChar(word) THEN Ret(1) ELSE IF HasLetterHyphenLetter(word) THEN SumPieces(Split(word, "-"), 0, dict, raises, depth + 1) ELSE IF HasLetterHyphenNonWord(word) THEN Nsyl(Strip(word, "-"), dict, raises, depth + 1) ELSE Ret(1)

\* nsyl(word) as the frame number depth of the interpreter's stack
Nsyl(word, dict, raises, depth) == IF depth > RecursionLimit THEN Raise("RecursionError") ELSE IF IsAlpha(word) THEN AlphaCount(word, dict, raises) ELSE IF HasChar("-", word) THEN HyphenCount(word, dict, raises, depth) ELSE Ret(1)

-----------------------------------------------------------------------------
(* The pronunciation dictionary *)

\* HH M
PronNoStress == <<<<"H", "H">>, <<"M">>>>

\* AH1 S
PronOne == <<<<"A", "H", "1">>, <<"S">>>>

\* Y UW1 EH1 S
PronTwo == <<<<"Y">>, <<"U", "W", "1">>, <<"E", "H", "1">>, <<"S">>>>

\* S EH1 P ER0 EY2 T
PronThree == <<<<"S">>, <<"E", "H", "1">>, <<"P">>, <<"E", "R", "0">>, <<"E", "Y", "2">>, <<"T">>>>

Pronunciations == {PronNoStress, PronOne, PronTwo, PronThree}

\* every list of 1..MaxVariants pronunciations
Entries == SeqsOf(Pronunciations, 1, MaxVariants)

\* the dictionaries of SpecNsyl: any of three entries for any of the keys
PieceKeys == {<<"a">>, <<"a", "b">>, <<"b", "a", "b">>}

PieceEntries == {<<PronOne>>, <<PronThree, PronTwo>>, <<PronNoStress>>}

PieceDictionaries == UNION {[K -> PieceEntries] : K \in SUBSET PieceKeys}

\* the dictionaries of SpecVariants: no key, or one key with any entry
VariantKeys == {W_us, W_separate, W_facebook, <<"a">>}

VariantDictionaries == UNION {[K -> Entries] : K \in {{}} \cup {{k} : k \in VariantKeys}}

-----------------------------------------------------------------------------
(* Calls *)

Idle == fn = "idle"

\* the call has returned or raised; the library keeps no state of it
Done == /\ ~Idle
        /\ fn' = "idle"
        /\ arg' = << >>
        /\ locals' = NoLocals
        /\ ret' = Ret(0)
        /\ UNCHANGED <<d, modeRaises>>

InitWith(dicts) == /\ d \in dicts
                   /\ modeRaises \in BOOLEAN
                   /\ fn = "idle"
                   /\ arg = << >>
                   /\ locals = NoLocals
                   /\ ret = Ret(0)

CallNsyl(words) == \E w \in words :
    /\ Idle
    /\ fn' = "nsyl"
    /\ arg' = w
    /\ locals' = NoLocals
    /\ ret' = Nsyl(w, d, modeRaises, 1)
    /\ UNCHANGED <<d, modeRaises>>

NsylAlphabet == {"a", "B", "-"}

W_well == <<"w", "e", "l", "l">>

W_known == <<"k", "n", "o", "w", "n">>

W_well_known == <<"w", "e", "l", "l", "-", "k", "n", "o", "w", "n">>

NsylWords == SeqsOf(NsylAlphabet, 0, MaxWordLen) \cup {W_well, W_known, W_well_known}

InitNsyl == InitWith(PieceDictionaries)

NextNsyl == CallNsyl(NsylWords) \/ Done

SpecNsyl == InitNsyl /\ [][NextNsyl]_vars

-----------------------------------------------------------------------------
(* get_words_list: the filter over the tokens of nltk.word_tokenize *)

\* re.search("'[a-zA-z]+", word)
HasApostropheLetters(word) == \E i \in 1..(Len(word) - 1) : word[i] = "'" /\ word[i + 1] \in AtoLowerZ

\* word[from..to] is a run of one or more letters
LetterRun(word, from, to) == from <= to /\ \A i \in from..to : word[i] \in Letters

\* re.search("[a-zA-Z]+\.[a-zA-Z]+\.[a-zA-Z]+(\/[a-zA-Z0-9]*)", word): the
\* group is not optional, so the third run of letters is followed by a slash
HasDottedDomain(word) == \E p, q, k \in 1..Len(word) : /\ p >= 2 /\ p < q /\ q < k
                                                       /\ word[p - 1] \in Letters
                                                       /\ word[p] = "."
                                                       /\ LetterRun(word, p + 1, q - 1)
                                                       /\ word[q] = "."
                                                       /\ LetterRun(word, q + 1, k - 1)
                                                       /\ word[k] = "/"

\* re.search("\d+\.\d+", word)
HasDecimal(word) == \E i \in 2..(Len(word) - 1) : word[i] = "." /\ word[i - 1] \in Digits /\ word[i + 1] \in Digits

\* ("-" in word) and re.search("[a-zA-Z0-9]+", word)
HasHyphenAndAlNum(word) == HasChar("-", word) /\ \E i \in 1..Len(word) : word[i] \in AlNum

\* the condition of the comprehension, lines 136-139
KeepWord(word) == IsAlNum(word) \/ HasApostropheLetters(word) \/ HasDottedDomain(word) \/ HasDecimal(word) \/ HasHyphenAndAlNum(word)

\* words_list of lines 135-139, tokens being nltk.word_tokenize(input_text)
RECURSIVE GetWordsList(_)
GetWordsList(tokens) == IF tokens = << >> THEN << >> ELSE (IF KeepWord(Head(tokens)) THEN <<Head(tokens)>> ELSE << >>) \o GetWordsList(Tail(tokens))

-----------------------------------------------------------------------------
(* get_complex_words_count and gfi *)

\* the loop of lines 280-282 (and 227-229 of smog): the words of 3 or more
\* syllables counted in count; a word on which nsyl raises ends the loop
RECURSIVE CountDifficult(_, _, _, _)
CountDifficult(words_list, count, dict, raises) == IF words_list = << >> THEN Ret(count) ELSE LET r == Nsyl(Head(words_list), dict, raises, 1) IN IF r.exc # "none" THEN r ELSE CountDifficult(Tail(words_list), IF r.val >= 3 THEN count + 1 ELSE count, dict, raises)

GetComplexWordsCount(tokens, dict, raises) == CountDifficult(GetWordsList(tokens), 0, dict, raises)

T_NNP == <<"N", "N", "P">>

T_VB == <<"V", "B">>

\* IsComplex without the test for a hyphen
IsComplexHyphenated(n, current_word, current_tag) == /\ n >= 3
                                                      /\ ~Contains(T_NNP, current_tag)
                                                      /\ (n = 3 /\ Contains(T_VB, current_tag) /\ (EndsWith(current_word, <<"e", "s">>) \/ EndsWith(current_word, <<"e", "d">>) \/ EndsWith(current_word, <<"i", "n", "g">>))) = FALSE

\* the condition of lines 257-260 on one tagged word whose nsyl is n
IsComplex(n, current_word, current_tag) == /\ n >= 3
                                            /\ ~Contains(T_NNP, current_tag)
                                            /\ ~HasChar("-", current_word)
                                            /\ (n = 3 /\ Contains(T_VB, current_tag) /\ (EndsWith(current_word, <<"e", "s">>) \/ EndsWith(current_word, <<"e", "d">>) \/ EndsWith(current_word, <<"i", "n", "g">>))) = FALSE

\* the loop of lines 253-261 over tagged_words_list, a sequence of
\* <<word, tag>>, complex_words so far in count
RECURSIVE CountComplex(_, _, _, _)
CountComplex(tagged, count, dict, raises) == IF tagged = << >> THEN Ret(count) ELSE LET r == Nsyl(Head(tagged)[1], dict, raises, 1) IN IF r.exc # "none" THEN r ELSE CountComplex(Tail(tagged), IF IsComplex(r.val, Head(tagged)[1], Head(tagged)[2]) THEN count + 1 ELSE count, dict, raises)

\* a float that is the fraction num / den
PyFloat(num, den) == [type |-> "float", str |-> "", num |-> num, den |-> den]

\* a str
PyStr(s) == [type |-> "str", str |-> s, num |-> 0, den |-> 1]

\* lines 263-266: (total_words / total_sentences + complex_words / total_words) * 0.4
GfiValue(total_words, total_sentences, complex_words) == IF total_sentences = 0 \/ total_words = 0 THEN Raise("ZeroDivisionError") ELSE Ret(PyFloat(2 * (total_words * total_words + complex_words * total_sentences), 5 * total_sentences * total_words))

\* gfi on a text whose retained words nltk.pos_tag tags as tagged and which
\* get_sentence_list splits in total_sentences sentences
Gfi(tagged, total_sentences, dict, raises) == LET c == CountComplex(tagged, 0, dict, raises) IN IF c.exc # "none" THEN c ELSE GfiValue(Len(tagged), total_sentences, c.val)

-----------------------------------------------------------------------------
(* smog *)

\* s[i:j]
PySlice(s, i, j) == LET n == Len(s)  lo == IF i < 0 THEN Max(0, n + i) ELSE Min(i, n)  hi == IF j < 0 THEN Max(0, n + j) ELSE Min(j, n) IN IF lo >= hi THEN << >> ELSE SubSeq(s, lo + 1, hi)

\* sentence_list[0:9]
SmogStart(sentence_list) == PySlice(sentence_list, 0, 9)

\* sentence_list[math.floor(total / 2 - 5) : round(total / 2 - 5)]
SmogMiddle(sentence_list) == LET total == Len(sentence_list) IN PySlice(sentence_list, (total - 10) \div 2, RoundHalfEven(total - 10, 2))

\* sentence_list[len - 10 : len]
SmogEnd(sentence_list) == PySlice(sentence_list, Len(sentence_list) - 10, Len(sentence_list))

\* the sentences of selection, line 223
SmogSelection(sentence_list) == SmogStart(sentence_list) \o SmogMiddle(sentence_list) \o SmogEnd(sentence_list)

\* round(math.sqrt(k)): sqrt(k) is never halfway between two integers
RoundSqrt(k) == CHOOSE r \in 0..k : (r = 0 \/ (2 * r - 1) * (2 * r - 1) <= 4 * k) /\ 4 * k < (2 * r + 1) * (2 * r + 1)

RECURSIVE Flatten(_)
Flatten(ss) == IF ss = << >> THEN << >> ELSE Head(ss) \o Flatten(Tail(ss))

\* smog on a text whose sentences are, each as its tokens, sentence_list
\* (the tokens of the selection are those of its sentences in order: what
\* nltk.word_tokenize makes of the two joins without a separator is left out)
Smog(sentence_list, dict, raises) == LET c == CountDifficult(GetWordsList(Flatten(SmogSelection(sentence_list))), 0, dict, raises) IN IF c.exc # "none" THEN c ELSE Ret(RoundSqrt(c.val) + 3)

-----------------------------------------------------------------------------
(* The age converters *)

\* Fractions are pairs <<num, den>> with den > 0
FracLeq(a, b) == a[1] * b[2] <= b[1] * a[2]

FracLess(a, b) == a[1] * b[2] < b[1] * a[2]

\* interp1d(y, x)(v): table is the sequence of the <<y, x>> in ascending y,
\* v a fraction inside the table
Interp(table, v) == LET i == CHOOSE k \in 1..(Len(table) - 1) : FracLeq(<<table[k][1], 1>>, v) /\ FracLeq(v, <<table[k + 1][1], 1>>)  y0 == table[i][1]  x0 == table[i][2]  y1 == table[i + 1][1]  x1 == table[i + 1][2] IN PyFloat(x0 * (y1 - y0) * v[2] + (v[1] - y0 * v[2]) * (x1 - x0), (y1 - y0) * v[2])

FresTable == <<<<30, 24>>, <<50, 18>>, <<60, 15>>, <<70, 13>>, <<80, 12>>, <<90, 11>>, <<100, 10>>>>

AriTable == <<<<1, 5>>, <<2, 6>>, <<3, 7>>, <<4, 9>>, <<5, 10>>, <<6, 11>>, <<7, 12>>, <<8, 13>>, <<9, 14>>, <<10, 15>>, <<11, 16>>, <<12, 17>>, <<13, 18>>, <<14, 24>>>>

GfiTable == <<<<6, 11>>, <<7, 12>>, <<8, 13>>, <<9, 14>>, <<10, 15>>, <<11, 16>>, <<12, 17>>, <<13, 19>>, <<14, 20>>, <<15, 21>>, <<16, 23>>, <<17, 24>>>>

ConvertFres(fres_value) == IF FracLess(fres_value, <<30, 1>>) THEN PyStr("24") ELSE IF FracLess(<<100, 1>>, fres_value) THEN PyStr("10") ELSE Interp(FresTable, fres_value)

ConvertAri(ari_value) == IF FracLess(<<14, 1>>, ari_value) THEN PyStr("24") ELSE IF FracLess(ari_value, <<1, 1>>) THEN PyStr("5") ELSE Interp(AriTable, ari_value)

ConvertGfi(gfi_value) == IF FracLess(<<17, 1>>, gfi_value) THEN PyStr("24") ELSE IF FracLess(gfi_value, <<6, 1>>) THEN PyStr("11") ELSE Interp(GfiTable, gfi_value)

-----------------------------------------------------------------------------
(* The library under an excerpt of the CMU dictionary: every function in    *)
(* Spec, and each function alone in a specification of its own            *)

W_banana == <<"b", "a", "n", "a", "n", "a">>

W_cat == <<"c", "a", "t">>

W_created == <<"c", "r", "e", "a", "t", "e", "d">>

W_abababes == <<"a", "b", "a", "b", "a", "b", "e", "s">>

W_banana_cat == <<"b", "a", "n", "a", "n", "a", "-", "c", "a", "t">>

W_a__b == <<"a", "-", "-", "b">>

\* entries of cmudict for us, separate, banana, cat and created
CmuExcerpt == (W_us :> <<PronOne, PronTwo>>) @@ (W_separate :> <<PronThree, <<<<"S">>, <<"E", "H", "1">>, <<"P">>, <<"E", "R", "0">>, <<"I", "H", "0">>, <<"T">>>>, <<<<"S">>, <<"E", "H", "1">>, <<"P">>, <<"R">>, <<"A", "H", "0">>, <<"T">>>>>>) @@ (W_banana :> <<<<<<"B">>, <<"A", "H", "0">>, <<"N">>, <<"A", "E", "1">>, <<"N">>, <<"A", "H", "0">>>>>>) @@ (W_cat :> <<<<<<"K">>, <<"A", "E", "1">>, <<"T">>>>>>) @@ (W_created :> <<<<<<"K">>, <<"R">>, <<"I", "Y", "0">>, <<"E", "Y", "1">>, <<"T">>, <<"I", "H", "0">>, <<"D">>>>>>)

TextDictionaries == {CmuExcerpt}

TextWords == {W_US, W_us, W_separate, W_facebook, W_thefacebook, W_tumblr, W_well_known, W_banana, W_created, W_banana_cat, W_a__b}

SylAlphabet == {"a", "E", "l", "s", "m", "t", "h"}

SylWords == SeqsOf(SylAlphabet, 0, MaxSylLen)

CallSyllables == \E w \in SylWords :
    /\ Idle
    /\ fn' = "syllables"
    /\ arg' = w
    /\ locals' = NoLocals
    /\ ret' = Syllables(w)
    /\ UNCHANGED <<d, modeRaises>>

TokAlphabet == {"a", ".", "/"}

W_See == <<"S", "e", "e">>

W_for == <<"f", "o", "r">>

W_info == <<"i", "n", "f", "o">>

W_example_com_page == <<"e", "x", "a", "m", "p", "l", "e", ".", "c", "o", "m", "/", "p", "a", "g", "e">>

W_www_example_com == <<"w", "w", "w", ".", "e", "x", "a", "m", "p", "l", "e", ".", "c", "o", "m">>

\* a token of nltk.word_tokenize is not empty
Tokens == SeqsOf(TokAlphabet, 1, MaxTokLen) \cup {W_example_com_page, W_www_example_com, W_www_example_com \o <<"/">>, <<"n", "'", "t">>, <<"'", "_">>, <<"'">>, <<"-">>, <<"3", ".", "5">>, <<"1">>, <<"a", "1">>, <<"1", ".">>, <<".", "5">>, W_well_known}

\* the tokens of "See <token> for info."
TokensAround(token) == <<W_See, token, W_for, W_info, <<".">>>>

CallGetWordsList == \E t \in Tokens :
    /\ Idle
    /\ fn' = "get_words_list"
    /\ arg' = TokensAround(t)
    /\ locals' = NoLocals
    /\ ret' = Ret(GetWordsList(TokensAround(t)))
    /\ UNCHANGED <<d, modeRaises>>

GfiWords == {w \in {W_banana, W_created, W_abababes, W_banana_cat, W_a__b} : KeepWord(w)}

GfiTags == {T_NNP, <<"V", "B", "D">>, <<"N", "N">>}

\* the outputs of nltk.pos_tag on up to MaxGfiWords retained words
TaggedLists == SeqsOf(GfiWords \X GfiTags, 0, MaxGfiWords)

WordsOf(tagged) == [i \in DOMAIN tagged |-> tagged[i][1]]

GfiLocals(tagged, dict, raises) == LET c == CountComplex(tagged, 0, dict, raises) IN IF c.exc # "none" THEN NoLocals ELSE [complex_words |-> c.val, total_words |-> Len(tagged)]

CallGfi == \E tagged \in TaggedLists, total_sentences \in 0..1 :
    /\ Idle
    /\ fn' = "gfi"
    /\ arg' = [tagged |-> tagged, total_sentences |-> total_sentences]
    /\ locals' = GfiLocals(tagged, d, modeRaises)
    /\ ret' = Gfi(tagged, total_sentences, d, modeRaises)
    /\ UNCHANGED <<d, modeRaises>>

CallGetComplexWordsCount == \E tagged \in TaggedLists :
    /\ Idle
    /\ fn' = "get_complex_words_count"
    /\ arg' = WordsOf(tagged) \o <<<<".">>>>
    /\ locals' = NoLocals
    /\ ret' = GetComplexWordsCount(WordsOf(tagged) \o <<<<".">>>>, d, modeRaises)
    /\ UNCHANGED <<d, modeRaises>>

\* a text of total sentences, of which sentence hard (if any) holds a word of
\* three syllables, each sentence as its tokens
SmogText(total, hard) == [i \in 1..total |-> IF i = hard THEN <<W_banana, <<".">>>> ELSE <<W_cat, <<".">>>>]

CallSmog == \E total \in 0..MaxSentences : \E hard \in 0..total :
    /\ Idle
    /\ fn' = "smog"
    /\ arg' = SmogText(total, hard)
    /\ locals' = [selection |-> SmogSelection([i \in 1..total |-> i])]
    /\ ret' = Smog(SmogText(total, hard), d, modeRaises)
    /\ UNCHANGED <<d, modeRaises>>

\* the metric values given to the converters, in halves
Values == {<<k, 2>> : k \in (-2 * MaxValue)..(2 * MaxValue)}

CallConvertFres == \E v \in Values :
    /\ Idle
    /\ fn' = "convert_fres"
    /\ arg' = v
    /\ locals' = NoLocals
    /\ ret' = Ret(ConvertFres(v))
    /\ UNCHANGED <<d, modeRaises>>

CallConvertAri == \E v \in Values :
    /\ Idle
    /\ fn' = "convert_ari"
    /\ arg' = v
    /\ locals' = NoLocals
    /\ ret' = Ret(ConvertAri(v))
    /\ UNCHANGED <<d, modeRaises>>

CallConvertGfi == \E v \in Values :
    /\ Idle
    /\ fn' = "convert_gfi"
    /\ arg' = v
    /\ locals' = NoLocals
    /\ ret' = Ret(ConvertGfi(v))
    /\ UNCHANGED <<d, modeRaises>>

Init == InitWith(TextDictionaries)

Next == \/ CallNsyl(TextWords)
        \/ CallSyllables
        \/ CallGetWordsList
        \/ CallGfi
        \/ CallGetComplexWordsCount
        \/ CallSmog
        \/ CallConvertFres
        \/ CallConvertAri
        \/ CallConvertGfi
        \/ Done

Spec == Init /\ [][Next]_vars

\* syllables alone
NextSyllables == CallSyllables \/ Done

SpecSyllables == Init /\ [][NextSyllables]_vars

\* get_words_list alone
NextWords == CallGetWordsList \/ Done

SpecWords == Init /\ [][NextWords]_vars

\* smog alone
NextSmog == CallSmog \/ Done

SpecSmog == Init /\ [][NextSmog]_vars

\* the three converters alone
NextConverters == CallConvertFres \/ CallConvertAri \/ CallConvertGfi \/ Done

SpecConverters == Init /\ [][NextConverters]_vars

\* gfi and get_complex_words_count alone
NextGfi == CallGfi \/ CallGetComplexWordsCount \/ Done

SpecGfi == Init /\ [][NextGfi]_vars

-----------------------------------------------------------------------------
(* nsyl on the override words, under every entry of a dictionary word *)

VariantWords == {W_US, W_us, <<"U", "s">>, W_separate, W_facebook, <<"F", "a", "c", "e", "b", "o", "o", "k">>, <<"a">>, <<"A">>}

InitVariants == InitWith(VariantDictionaries)

NextVariants == CallNsyl(VariantWords) \/ Done

SpecVariants == InitVariants /\ [][NextVariants]_vars

-----------------------------------------------------------------------------
(* Properties *)

LettersAndHyphens(w) == Len(w) > 0 /\ \A i \in 1..Len(w) : w[i] \in Letters \cup {"-"}

\* C1: nsyl of a non-empty word made of letters, or of letters and hyphens,
\* returns an integer that is at least 1, whatever the dictionary holds.
C1_NsylAtLeastOne == fn = "nsyl" /\ LettersAndHyphens(arg) => ret.exc = "none" /\ ret.val >= 1

\* C2 as stated: nsyl("US") = 2, nsyl("us") = 1 and nsyl("separate") = 2
\* whatever the dictionary holds for them, no entry included, and
\* nsyl("facebook") = 2 when "facebook" is no key of the dictionary.
C2_OverridesAlways == fn = "nsyl" => /\ arg = W_US => ret = Ret(2)
                                     /\ arg = W_us => ret = Ret(1)
                                     /\ arg = W_separate => ret = Ret(2)
                                     /\ arg = W_facebook /\ W_facebook \notin DOMAIN d => ret = Ret(2)

\* C2 as amended: nsyl("us") = 1 in every case; nsyl("US") = 2 and
\* nsyl("separate") = 2 whatever pronunciations the dictionary holds for the
\* word, provided it holds an entry for it, and the fallback estimate (1 for
\* "US", 3 for "separate") when it holds none; nsyl("facebook") = 2 when
\* "facebook" is no key of the dictionary.
C2_OverridesOfDictionaryWords == fn = "nsyl" => /\ arg = W_US => ret = Ret(IF W_us \in DOMAIN d THEN 2 ELSE 1)
                                                /\ arg = W_us => ret = Ret(1)
                                                /\ arg = W_separate => ret = Ret(IF W_separate \in DOMAIN d THEN 2 ELSE 3)
                                                /\ arg = W_facebook /\ W_facebook \notin DOMAIN d => ret = Ret(2)

\* "separate" looked up in a dictionary whose pronunciations of it have no
\* two syllables
C2_Witness == fn = "nsyl" /\ arg = W_separate /\ W_separate \in DOMAIN d /\ Len(d[W_separate]) = 2 /\ (\A i \in 1..2 : StressCount(d[W_separate][i]) = 3) /\ ret = Ret(2)

\* letters.letters.letters somewhere in the word, a path segment or not
MatchesDottedDomain(word) == \E p, q \in 2..(Len(word) - 1) : p < q /\ word[p - 1] \in Letters /\ word[p] = "." /\ LetterRun(word, p + 1, q - 1) /\ word[q] = "." /\ word[q + 1] \in Letters

\* C3: get_words_list retains every token that matches the dotted-domain
\* pattern letters.letters.letters, followed by a path segment or not, and
\* retains the token "example.com/page".
C3_DomainsRetained == fn = "get_words_list" /\ (MatchesDottedDomain(arg[2]) \/ arg[2] = W_example_com_page) => (\E i \in DOMAIN ret.val : ret.val[i] = arg[2])

\* the positions low..high
Positions(low, high) == [i \in 1..(high - low + 1) |-> low + i - 1]

\* C4: the sample of smog is the first 10 sentences, the middle slice and
\* the last 10 sentences; of a text of exactly 20 sentences it is sentences
\* 1..10, no middle sentence, and sentences 11..20.
C4_SmogSample == fn = "smog" => /\ locals.selection = PySlice(Positions(1, Len(arg)), 0, 10) \o SmogMiddle(Positions(1, Len(arg))) \o SmogEnd(Positions(1, Len(arg)))
                                /\ Len(arg) = 20 => locals.selection = Positions(1, 10) \o Positions(11, 20)

\* the Python value v equals the number n
EqualsNumber(v, n) == v.type = "float" /\ v.num = n * v.den

\* C5: outside the table the converters return the boundary age as a value
\* equal to the number: convert_fres 24 below 30 and 10 above 100,
\* convert_ari 5 below 1 and 24 above 14, convert_gfi 11 below 6 and 24
\* above 17.
C5_ConvertersSaturate == /\ fn = "convert_fres" /\ FracLess(arg, <<30, 1>>) => EqualsNumber(ret.val, 24)
                         /\ fn = "convert_fres" /\ FracLess(<<100, 1>>, arg) => EqualsNumber(ret.val, 10)
                         /\ fn = "convert_ari" /\ FracLess(arg, <<1, 1>>) => EqualsNumber(ret.val, 5)
                         /\ fn = "convert_ari" /\ FracLess(<<14, 1>>, arg) => EqualsNumber(ret.val, 24)
                         /\ fn = "convert_gfi" /\ FracLess(arg, <<6, 1>>) => EqualsNumber(ret.val, 11)
                         /\ fn = "convert_gfi" /\ FracLess(<<17, 1>>, arg) => EqualsNumber(ret.val, 24)

\* two or more non-empty runs of letters separated by single hyphens
SingleHyphenated(w) == /\ LettersAndHyphens(w)
                       /\ HasChar("-", w)
                       /\ w[1] # "-" /\ w[Len(w)] # "-"
                       /\ \A i \in 1..(Len(w) - 1) : ~(w[i] = "-" /\ w[i + 1] = "-")

\* the end of the run of letters of w that starts at i
RunEnd(w, i) == CHOOSE j \in i..Len(w) : (\A k \in i..j : w[k] # "-") /\ (j = Len(w) \/ w[j + 1] = "-")

\* the sum of the counts nsyl returns for the runs of letters of w
SumOfRuns(w) == LET starts == {i \in 1..Len(w) : w[i] # "-" /\ (i = 1 \/ w[i - 1] = "-")}  count == [i \in starts |-> Nsyl(SubSeq(w, i, RunEnd(w, i)), d, modeRaises, 1).val]  sum[S \in SUBSET starts] == IF S = {} THEN 0 ELSE LET x == CHOOSE y \in S : TRUE IN count[x] + sum[S \ {x}] IN sum[starts]

FourConditions(tagged, i) == LET n == Nsyl(tagged[i][1], d, modeRaises, 1).val  word == tagged[i][1]  tag == tagged[i][2] IN /\ n >= 3
                                  /\ ~Contains(T_NNP, tag)
                                  /\ ~HasChar("-", word)
                                  /\ ~(n = 3 /\ Contains(T_VB, tag) /\ \E suffix \in {<<"e", "s">>, <<"e", "d">>, <<"i", "n", "g">>} : EndsWith(word, suffix))

\* C7: gfi counts a word as complex exactly when the four conditions hold,
\* so its count exceeds neither get_complex_words_count of the text nor the
\* number of words.
C7_ComplexWords == fn = "gfi" /\ locals # NoLocals => /\ locals.complex_words = Cardinality({i \in DOMAIN arg.tagged : FourConditions(arg.tagged, i)})
                                                      /\ locals.complex_words <= GetComplexWordsCount(WordsOf(arg.tagged), d, modeRaises).val
                                                      /\ locals.complex_words <= locals.total_words

\* "created" tagged as a verb is not counted, "banana" tagged as a noun is
C7_Witness == fn = "gfi" /\ arg.tagged = <<<<W_created, <<"V", "B", "D">>>>, <<W_banana, <<"N", "N">>>>>> /\ locals # NoLocals /\ locals.complex_words = 1 /\ ret.exc = "none"

\* C8: for a dictionary word that is no override, nsyl returns the count of
\* the only variant, or the unique mode of the counts of the variants, or,
\* with no unique mode, their mean rounded to an integer.
C8_ModeOrRoundedMean == fn = "nsyl" /\ IsAlpha(arg) /\ Lower(arg) \in DOMAIN d /\ arg \notin {W_US, W_us, W_separate} => LET counts == SylList(d[Lower(arg)]) IN ret = Ret(IF Len(counts) = 1 THEN counts[1] ELSE IF Cardinality(Modes(counts)) = 1 THEN CHOOSE m \in Modes(counts) : TRUE ELSE RoundedMean(counts))

\* 1 when the lowercased word ends in suffix, else 0
EndsIn(word, suffix) == IF EndsWith(Lower(word), suffix) THEN 1 ELSE 0

\* the number of places of the lowercased word where a run of vowels starts
Onsets(word) == Cardinality({i \in 1..Len(word) : Lower(word)[i] \in Vowels /\ (i = 1 \/ Lower(word)[i - 1] \notin Vowels)})

\* onsets - E + LE + SM + THM
Unclamped(word) == Onsets(word) - EndsIn(word, <<"e">>) + EndsIn(word, <<"l", "e">>) + EndsIn(word, <<"s", "m">>) + EndsIn(word, <<"t", "h", "m">>)

\* C9: syllables of a non-empty word returns max(1, onsets - E + LE + SM +
\* THM), the four adjustments stacking, and the value before clamping is
\* never negative.
C9_SyllablesFormula == fn = "syllables" /\ Len(arg) > 0 => Unclamped(arg) >= 0 /\ ret = Ret(Max(1, Unclamped(arg)))

\* "alE": two onsets, less one for the "e", plus one for the "le"
C9_Witness == fn = "syllables" /\ arg = <<"a", "l", "E">> /\ Onsets(arg) = 2 /\ ret = Ret(2)

\* C10: nsyl returns on every word: the recursion on a word with hyphens
\* reaches a case that does not recurse, so the interpreter's stack never
\* runs out.
C10_NsylReturns == fn = "nsyl" => ret.exc # "RecursionError"

=============================================================================
